---- MODULE Spec2Model ----
(***************************************************************************)
(* Account REST service (service/routes.py): the five CRUD handlers over   *)
(* the accounts table and the storage session they share, with the Account *)
(* entity contract (service/models.py) taken from the specification.       *)
(***************************************************************************)
EXTENDS Integers, Sequences, FiniteSets, TLC

\* Number of rows the primary-key sequence may hand out in a run.
MaxAccounts == 2

\* ------------------------------------------------------------------ data

RequiredKeys == {"name", "email", "address"}
OptionalKeys == {"phone_number", "date_joined", "id"}
AllKeys == RequiredKeys \cup OptionalKeys

Null == "null"
Today == <<2024, 5, 17>>
OtherDate == <<2020, 2, 29>>

\* date.isoformat() / date.fromisoformat() on the dates of the model
isoformat(d) == IF d = Today THEN "2024-05-17" ELSE "2020-02-29"
fromisoformat(s) == IF s = "2024-05-17" THEN Today ELSE OtherDate

\* Two generated accounts (tests.factories.AccountFactory), as JSON values.
Profiles == {"1", "2"}
JsonValue(v, k) ==
    CASE k = "name" -> IF v = "1" THEN "n1" ELSE "n2"
      [] k = "email" -> IF v = "1" THEN "e1" ELSE "e2"
      [] k = "address" -> IF v = "1" THEN "a1" ELSE "a2"
      [] k = "phone_number" -> IF v = "1" THEN "p1" ELSE "p2"
      [] k = "date_joined" -> isoformat(OtherDate)
      [] OTHER -> IF v = "1" THEN 2 ELSE 1

\* A JSON object: a mapping from some of the keys to values.
Payload(v, K) == [k \in K |-> JsonValue(v, k)]
\* The bodies sent: each profile's complete body (the first with every
\* optional key, the second with none), and the second profile's body
\* lacking one required key or two.
OptionalsOf(v) == IF v = "1" THEN OptionalKeys ELSE {}
PartialKeySets ==
    {{"email", "address"}, {"name", "address"}, {"name", "email"}, {"name"}}
Payloads ==
    {Payload(v, RequiredKeys \cup OptionalsOf(v)) : v \in Profiles}
        \cup {Payload("2", R) : R \in PartialKeySets}
EmptyBody == Payload("1", {})

\* What request.get_json() gives the handler: a mapping, or a failure to
\* parse the body (the framework answers 400).
Jsons == [ok : {TRUE}, data : Payloads] \cup {[ok |-> FALSE, data |-> EmptyBody]}

\* The Content-Type header: not sent (headers.get gives None), or a media type.
NoHeader == "None"
ContentTypes == {NoHeader, "application/json", "text/html"}
PathIds == 0..MaxAccounts

\* ------------------------------------------------- Account (service.models)

\* A fresh Account(): no id, no field set.
Account ==
    [id |-> 0, name |-> Null, email |-> Null, address |-> Null,
     phone_number |-> Null, date_joined |-> Today]

None == [absent |-> TRUE]

\* deserialize: fields from the mapping, in order; a missing required key
\* stops it with a ValidationError. The id is not touched.
deserialize(acc, data) ==
    LET K == DOMAIN data
        a1 == IF "name" \in K THEN [acc EXCEPT !.name = data["name"]] ELSE acc
        a2 == IF "email" \in K THEN [a1 EXCEPT !.email = data["email"]] ELSE a1
        a3 == IF "address" \in K THEN [a2 EXCEPT !.address = data["address"]] ELSE a2
        a4 == [a3 EXCEPT !.phone_number =
                  IF "phone_number" \in K THEN data["phone_number"] ELSE Null]
        a5 == [a4 EXCEPT !.date_joined =
                  IF "date_joined" \in K THEN fromisoformat(data["date_joined"])
                  ELSE Today]
    IN  IF "name" \notin K THEN [ok |-> FALSE, acc |-> acc]
        ELSE IF "email" \notin K THEN [ok |-> FALSE, acc |-> a1]
        ELSE IF "address" \notin K THEN [ok |-> FALSE, acc |-> a2]
        ELSE [ok |-> TRUE, acc |-> a5]

\* serialize: every field under its JSON key, the date as an ISO string.
serialize(acc) ==
    [k \in AllKeys |->
        CASE k = "id" -> acc.id
          [] k = "name" -> acc.name
          [] k = "email" -> acc.email
          [] k = "address" -> acc.address
          [] k = "phone_number" -> acc.phone_number
          [] OTHER -> isoformat(acc.date_joined)]

\* The storage layer keeps the committed rows (t) and one session that
\* holds the instances assigned to since the last commit
\* (sess). A commit writes every such instance to its row.
Ids(t) == {r.id : r \in t}
commit(t, sess) == {r \in t : r.id \notin Ids(sess)} \cup sess

\* find: the instance with that primary key, or None. An instance the
\* session holds is returned as it is, with what was assigned to it.
find(t, sess, id) ==
    IF \E a \in sess : a.id = id THEN CHOOSE a \in sess : a.id = id
    ELSE IF \E r \in t : r.id = id THEN CHOOSE r \in t : r.id = id
    ELSE None

\* create: insert a row under the next value of the primary-key sequence,
\* and commit.
create(t, sess, seq, acc) ==
    LET row == [acc EXCEPT !.id = seq]
    IN  [table |-> commit(t, sess) \cup {row}, session |-> {},
         seq_id |-> seq + 1, acc |-> row]

\* update: commit; the instance's fields go to the row with its id.
update(t, sess, acc) ==
    [table |-> commit(t, {a \in sess : a.id # acc.id} \cup {acc}), session |-> {}]

\* delete: remove the row with the instance's id, and commit.
delete(t, sess, acc) ==
    [table |-> {r \in commit(t, sess) : r.id # acc.id}, session |-> {}]

\* all: every instance, in an order the storage layer chooses.
all(t, sess) ==
    LET v == commit(t, sess)
    IN  {s \in [1..Cardinality(v) -> v] :
            \A i, j \in 1..Cardinality(v) : i # j => s[i] # s[j]}

\* ------------------------------------------------ handlers (service.routes)

HTTP_200_OK == 200
HTTP_201_CREATED == 201
HTTP_204_NO_CONTENT == 204
HTTP_400_BAD_REQUEST == 400
HTTP_404_NOT_FOUND == 404
HTTP_415_UNSUPPORTED_MEDIA_TYPE == 415

\* How long the storage session lives is decided where the application is set
\* up, outside service.routes: it is released when a request ends, or it stays
\* bound to the process and is carried over to the next request.
SessionScopes == {"request", "process"}
release(scope, sess) == IF scope = "request" THEN {} ELSE sess

\* What a request leaves behind: the table, the session, the sequence, the
\* response and the persistence calls the handler made.
Outcome(scope, t, sess, seq, st, body, cs) ==
    [table |-> t, session |-> release(scope, sess), seq_id |-> seq,
     status |-> st, body |-> body, calls |-> cs]

\* The session after find_account.deserialize(...) assigned in place to the
\* instance acc (an instance equal to its row is not a change).
assigned(t, sess, acc) == {a \in sess : a.id # acc.id} \cup ({acc} \ t)

\* Mutant: a request without a Content-Type header is let through.
check_content_type_lenient(content_type, media_type) ==
    content_type = NoHeader \/ content_type = media_type

\* check_content_type: TRUE when the handler goes on, FALSE when it aborts.
check_content_type(content_type, media_type) ==
    content_type # NoHeader /\ content_type = media_type

\* Mutant: the handler answers 201 without inserting the row.
create_accounts_unsaved(scope, t, sess, seq, content_type, json) ==
    IF ~check_content_type(content_type, "application/json")
    THEN Outcome(scope, t, sess, seq, HTTP_415_UNSUPPORTED_MEDIA_TYPE, EmptyBody, <<>>)
    ELSE IF ~json.ok
    THEN Outcome(scope, t, sess, seq, HTTP_400_BAD_REQUEST, EmptyBody, <<>>)
    ELSE LET d == deserialize(Account, json.data)
         IN  IF ~d.ok
             THEN Outcome(scope, t, sess, seq, HTTP_400_BAD_REQUEST, EmptyBody, <<>>)
             ELSE Outcome(scope, t, sess, seq, HTTP_201_CREATED,
                          serialize([d.acc EXCEPT !.id = seq]), <<>>)

\* Mutant: the validation error is swallowed and the instance created anyway.
create_accounts_unvalidated(scope, t, sess, seq, content_type, json) ==
    IF ~check_content_type(content_type, "application/json")
    THEN Outcome(scope, t, sess, seq, HTTP_415_UNSUPPORTED_MEDIA_TYPE, EmptyBody, <<>>)
    ELSE IF ~json.ok
    THEN Outcome(scope, t, sess, seq, HTTP_400_BAD_REQUEST, EmptyBody, <<>>)
    ELSE LET d == deserialize(Account, json.data)
             c == create(t, sess, seq, d.acc)
         IN  Outcome(scope, c.table, c.session, c.seq_id,
                     IF d.ok THEN HTTP_201_CREATED ELSE HTTP_400_BAD_REQUEST,
                     IF d.ok THEN serialize(c.acc) ELSE EmptyBody, <<"create">>)

\* POST /accounts
create_accounts(scope, t, sess, seq, content_type, json) ==
    IF ~check_content_type(content_type, "application/json")
    THEN Outcome(scope, t, sess, seq, HTTP_415_UNSUPPORTED_MEDIA_TYPE, EmptyBody, <<>>)
    ELSE IF ~json.ok
    THEN Outcome(scope, t, sess, seq, HTTP_400_BAD_REQUEST, EmptyBody, <<>>)
    ELSE LET d == deserialize(Account, json.data)
         IN  IF ~d.ok
             THEN Outcome(scope, t, sess, seq, HTTP_400_BAD_REQUEST, EmptyBody, <<>>)
             ELSE LET c == create(t, sess, seq, d.acc)
                  IN  Outcome(scope, c.table, c.session, c.seq_id, HTTP_201_CREATED,
                              serialize(c.acc), <<"create">>)

\* GET /accounts, accs being what Account.all() returned
list_accounts(scope, t, sess, seq, accs) ==
    Outcome(scope, t, sess, seq, HTTP_200_OK,
            [i \in 1..Len(accs) |-> serialize(accs[i])], <<>>)

\* GET /accounts/<id>
read_account(scope, t, sess, seq, id) ==
    LET acc == find(t, sess, id)
    IN  IF acc = None
        THEN Outcome(scope, t, sess, seq, HTTP_404_NOT_FOUND, EmptyBody, <<>>)
        ELSE Outcome(scope, t, sess, seq, HTTP_200_OK, serialize(acc), <<>>)

\* Mutant: an unknown id is inserted instead of answered with 404.
update_account_upsert(scope, t, sess, seq, id, json) ==
    LET find_account == find(t, sess, id)
        target == IF find_account = None THEN [Account EXCEPT !.id = id]
                  ELSE find_account
    IN  IF ~json.ok
        THEN Outcome(scope, t, sess, seq, HTTP_400_BAD_REQUEST, EmptyBody, <<>>)
        ELSE LET d == deserialize(target, json.data)
             IN  IF ~d.ok
                 THEN Outcome(scope, t, assigned(t, sess, d.acc), seq,
                              HTTP_400_BAD_REQUEST, EmptyBody, <<>>)
                 ELSE LET u == update(t, sess, d.acc)
                      IN  Outcome(scope, u.table, u.session, seq, HTTP_200_OK,
                                  serialize(find(u.table, u.session, id)),
                                  <<"update">>)

\* Mutant: the handler also copies the payload's id onto the instance.
update_account_client_id(scope, t, sess, seq, id, json) ==
    LET find_account == find(t, sess, id)
    IN  IF find_account = None
        THEN Outcome(scope, t, sess, seq, HTTP_404_NOT_FOUND, EmptyBody, <<>>)
        ELSE IF ~json.ok
        THEN Outcome(scope, t, sess, seq, HTTP_400_BAD_REQUEST, EmptyBody, <<>>)
        ELSE LET d == deserialize(find_account, json.data)
                 a == IF "id" \in DOMAIN json.data
                      THEN [d.acc EXCEPT !.id = json.data["id"]] ELSE d.acc
             IN  IF ~d.ok
                 THEN Outcome(scope, t, assigned(t, sess, d.acc), seq,
                              HTTP_400_BAD_REQUEST, EmptyBody, <<>>)
                 ELSE LET gone == delete(t, sess, find_account)
                          u == update(gone.table, gone.session, a)
                      IN  Outcome(scope, u.table, u.session, seq, HTTP_200_OK,
                                  serialize(a), <<"update">>)

\* PUT /accounts/<id>. deserialize assigns in place on find_account, the
\* session's instance (d.acc is that instance afterwards), and update()
\* commits. When a required key is missing the handler is left by the
\* validation error with the keys before it already assigned: the instance
\* stays in the session as it is, and the handler does nothing about it;
\* whether a later request meets it depends on the session's lifetime.
update_account(scope, t, sess, seq, id, json) ==
    LET find_account == find(t, sess, id)
    IN  IF find_account = None
        THEN Outcome(scope, t, sess, seq, HTTP_404_NOT_FOUND, EmptyBody, <<>>)
        ELSE IF ~json.ok
        THEN Outcome(scope, t, sess, seq, HTTP_400_BAD_REQUEST, EmptyBody, <<>>)
        ELSE LET d == deserialize(find_account, json.data)
             IN  IF ~d.ok
                 THEN Outcome(scope, t, assigned(t, sess, d.acc), seq,
                              HTTP_400_BAD_REQUEST, EmptyBody, <<>>)
                 ELSE LET u == update(t, sess, d.acc)
                      IN  Outcome(scope, u.table, u.session, seq, HTTP_200_OK,
                                  serialize(find(u.table, u.session, id)),
                                  <<"update">>)

\* Mutant: a missing row is answered with 404.
delete_account_strict(scope, t, sess, seq, id) ==
    LET acc == find(t, sess, id)
    IN  IF acc # None
        THEN LET d == delete(t, sess, acc)
             IN  Outcome(scope, d.table, d.session, seq, HTTP_204_NO_CONTENT, EmptyBody,
                         <<"delete">>)
        ELSE Outcome(scope, t, sess, seq, HTTP_404_NOT_FOUND, EmptyBody, <<>>)

\* DELETE /accounts/<id>
delete_account(scope, t, sess, seq, id) ==
    LET acc == find(t, sess, id)
    IN  IF acc # None
        THEN LET d == delete(t, sess, acc)
             IN  Outcome(scope, d.table, d.session, seq, HTTP_204_NO_CONTENT, EmptyBody,
                         <<"delete">>)
        ELSE Outcome(scope, t, sess, seq, HTTP_204_NO_CONTENT, EmptyBody, <<>>)

\* GET /health and GET /
health(scope, t, sess, seq) == Outcome(scope, t, sess, seq, HTTP_200_OK, EmptyBody, <<>>)
index(scope, t, sess, seq) == Outcome(scope, t, sess, seq, HTTP_200_OK, EmptyBody, <<>>)

\* ----------------------------------------------------------- the service

VARIABLES
    table,    \* the committed rows of the accounts table
    session,  \* instances assigned to and not committed yet
    session_scope,  \* lifetime of the session in this deployment
    seq_id,   \* next value of the primary-key sequence
    req,      \* the request handled last
    resp,     \* its response
    calls,    \* the persistence calls the handler made
    pre       \* table, session and sequence before that request

vars == <<table, session, session_scope, seq_id, req, resp, calls, pre>>

NoJson == [ok |-> FALSE, data |-> EmptyBody]
Request(m, id, ct, json) ==
    [method |-> m, id |-> id, content_type |-> ct, json |-> json]

Handle(r, o) ==
    /\ pre' = [table |-> table, session |-> session, seq_id |-> seq_id]
    /\ req' = r
    /\ table' = o.table
    /\ session' = o.session
    /\ session_scope' = session_scope
    /\ seq_id' = o.seq_id
    /\ resp' = [status |-> o.status, body |-> o.body]
    /\ calls' = o.calls

\* The table starts empty; the sequence is wherever earlier runs left it.
Init ==
    /\ table = {}
    /\ session = {}
    /\ session_scope \in SessionScopes
    /\ seq_id \in 1..MaxAccounts
    /\ req = Request("NONE", 0, NoHeader, NoJson)
    /\ resp = [status |-> HTTP_200_OK, body |-> EmptyBody]
    /\ calls = <<>>
    /\ pre = [table |-> {}, session |-> {}, seq_id |-> seq_id]

Post ==
    \E ct \in ContentTypes, json \in Jsons :
        LET o == create_accounts(session_scope, table, session, seq_id, ct, json)
        IN  /\ o.seq_id <= MaxAccounts + 1
            /\ Handle(Request("POST", 0, ct, json), o)

List ==
    \E accs \in all(table, session) :
        Handle(Request("LIST", 0, NoHeader, NoJson),
               list_accounts(session_scope, table, session, seq_id, accs))

Read ==
    \E id \in PathIds :
        Handle(Request("GET", id, NoHeader, NoJson),
               read_account(session_scope, table, session, seq_id, id))

Put ==
    \E id \in PathIds, json \in Jsons :
        Handle(Request("PUT", id, "application/json", json),
               update_account(session_scope, table, session, seq_id, id, json))

Delete ==
    \E id \in PathIds :
        Handle(Request("DELETE", id, NoHeader, NoJson),
               delete_account(session_scope, table, session, seq_id, id))

Health ==
    Handle(Request("HEALTH", 0, NoHeader, NoJson), health(session_scope, table, session, seq_id))

Index ==
    Handle(Request("INDEX", 0, NoHeader, NoJson), index(session_scope, table, session, seq_id))

Next == Post \/ List \/ Read \/ Put \/ Delete \/ Health \/ Index

Spec == Init /\ [][Next]_vars

\* ------------------------------------------------------------ properties

Range(f) == {f[i] : i \in DOMAIN f}
ValidJson(json) == json.ok /\ RequiredKeys \subseteq DOMAIN json.data
IsoDates == {isoformat(Today), isoformat(OtherDate)}
Is(m) == req.method = m
ClientErrors == 400..499
\* The accounts as a GET shows them, before and after the request.
Shown == commit(table, session)
ShownBefore == commit(pre.table, pre.session)
PhoneOf(p) == IF "phone_number" \in DOMAIN p THEN p["phone_number"] ELSE Null

\* C1: a POST of a valid payload with Content-Type application/json answers
\* 201 and stores one new row holding the payload's name, email, address and
\* phone_number under a fresh id; a GET of that id answers 200 with those
\* values, the id and a date_joined; and what a GET of an id answers changes
\* only by a PUT or a DELETE of that id.
C1_PostThenGet ==
    /\ (Is("POST") /\ req.content_type = "application/json" /\ ValidJson(req.json)) =>
          /\ resp.status = HTTP_201_CREATED
          /\ Cardinality(table) = Cardinality(pre.table) + 1
          /\ LET p == req.json.data
                 g == read_account(session_scope, table, session, seq_id, resp.body["id"])
             IN  /\ g.status = HTTP_200_OK
                 /\ g.table = table
                 /\ \A k \in RequiredKeys : g.body[k] = p[k]
                 /\ g.body["phone_number"] = PhoneOf(p)
                 /\ g.body["id"] = resp.body["id"]
                 /\ g.body["id"] \notin Ids(pre.table)
                 /\ g.body["date_joined"] \in IsoDates
                 /\ g.body = resp.body
                 /\ \E r \in table : serialize(r) = g.body
    /\ \A r \in ShownBefore :
          r \in Shown \/ ((Is("PUT") \/ Is("DELETE")) /\ req.id = r.id)
    /\ (Is("GET") /\ req.id \in Ids(Shown)) =>
          /\ resp.status = HTTP_200_OK
          /\ \E r \in Shown : r.id = req.id /\ resp.body = serialize(r)

C1_Witness ==
    /\ Is("POST") /\ resp.status = HTTP_201_CREATED
    /\ "phone_number" \in DOMAIN req.json.data
    /\ Cardinality(table) = 2
    /\ pre.session # {}

\* C2: DELETE answers 204 whether or not the row is stored; after it the row
\* is gone, a second DELETE of the same id answers 204 and changes nothing,
\* a GET of the id answers 404, and a DELETE of an id that is not stored
\* leaves every row as it was.
C2_DeleteIdempotent ==
    Is("DELETE") =>
        /\ resp.status = HTTP_204_NO_CONTENT
        /\ req.id \notin Ids(table) \cup Ids(session)
        /\ Shown = {r \in ShownBefore : r.id # req.id}
        /\ LET again == delete_account(session_scope, table, session, seq_id, req.id)
           IN  /\ again.status = HTTP_204_NO_CONTENT
               /\ again.table = table
               /\ again.session = session
        /\ read_account(session_scope, table, session, seq_id, req.id).status = HTTP_404_NOT_FOUND
        /\ (req.id \notin Ids(pre.table) =>
               table = pre.table /\ session = pre.session)

C2_Witness ==
    /\ Is("DELETE")
    /\ req.id \notin Ids(pre.table) /\ req.id >= 1 /\ req.id < seq_id
    /\ table # {}
    /\ session # {}

\* C3: a PUT of an id that is not stored answers 404 and leaves the table
\* as it was, whatever the body.
C3_PutUnknown ==
    (Is("PUT") /\ req.id \notin Ids(pre.table)) =>
        /\ resp.status = HTTP_404_NOT_FOUND
        /\ table = pre.table
        /\ seq_id = pre.seq_id

C3_Witness ==
    /\ Is("PUT") /\ req.id \notin Ids(pre.table)
    /\ ValidJson(req.json)
    /\ pre.table # {}

\* C4: a PUT of a stored id with a valid payload answers 200; the row of that
\* id then holds the payload's name, email, address and phone_number, the
\* ids and the number of rows are those of before, every other row is
\* unchanged, and the response body is what a GET of the id returns.
C4_PutOverwrites ==
    (Is("PUT") /\ req.id \in Ids(pre.table) /\ ValidJson(req.json)) =>
        /\ resp.status = HTTP_200_OK
        /\ Ids(table) = Ids(pre.table)
        /\ Cardinality(table) = Cardinality(pre.table)
        /\ \A r \in pre.table : r.id # req.id => r \in table
        /\ LET p == req.json.data
               row == find(table, {}, req.id)
               g == read_account(session_scope, table, session, seq_id, req.id)
           IN  /\ row # None
               /\ row.id = req.id
               /\ row.name = p["name"]
               /\ row.email = p["email"]
               /\ row.address = p["address"]
               /\ row.phone_number = PhoneOf(p)
               /\ g.status = HTTP_200_OK
               /\ resp.body = g.body

\* C5: a POST with Content-Type application/json whose body lacks a required
\* field answers 400 and leaves the table as it was.
C5_PostMissingField ==
    (Is("POST") /\ req.content_type = "application/json" /\ req.json.ok
        /\ ~ValidJson(req.json)) =>
        /\ resp.status = HTTP_400_BAD_REQUEST
        /\ table = pre.table
        /\ seq_id = pre.seq_id

C5_Witness ==
    /\ Is("POST") /\ req.content_type = "application/json" /\ req.json.ok
    /\ "name" \in DOMAIN req.json.data /\ "email" \notin DOMAIN req.json.data
    /\ pre.table # {}

\* C6: a POST whose Content-Type is absent or is not application/json answers
\* 415 whether the body is valid, invalid or unparsable, and creates no row.
C6_PostWrongMediaType ==
    (Is("POST") /\ req.content_type # "application/json") =>
        /\ resp.status = HTTP_415_UNSUPPORTED_MEDIA_TYPE
        /\ table = pre.table
        /\ seq_id = pre.seq_id

C6_Witness ==
    /\ Is("POST") /\ req.content_type = "text/html"
    /\ ValidJson(req.json)
    /\ resp.status = HTTP_415_UNSUPPORTED_MEDIA_TYPE

\* C7: GET /accounts answers 200 with one serialized entry per stored row and
\* nothing else, the empty array for the empty table, and leaves the table
\* as it was.
C7_ListAll ==
    Is("LIST") =>
        /\ resp.status = HTTP_200_OK
        /\ Len(resp.body) = Cardinality(table)
        /\ Range(resp.body) = {serialize(r) : r \in table}
        /\ (table = {} => resp.body = <<>>)
        /\ table = pre.table

\* C8: no two rows share an id; a new row's id is the next value of the
\* sequence, whatever id the payload carries; no request changes the id of
\* a stored row, and a PUT leaves the set of ids as it was.
C8_IdsFromStorage ==
    /\ \A r, s \in table : r.id = s.id => r = s
    /\ \A a, b \in session : a.id = b.id => a = b
    /\ Ids(session) \subseteq Ids(table)
    /\ \A i \in Ids(table) : i >= 1 /\ i < seq_id
    /\ Ids(table) \subseteq Ids(pre.table) \cup {pre.seq_id}
    /\ (Is("POST") /\ resp.status = HTTP_201_CREATED) =>
          /\ resp.body["id"] = pre.seq_id
          /\ Ids(table) = Ids(pre.table) \cup {pre.seq_id}
          /\ pre.seq_id \notin Ids(pre.table)
    /\ Is("PUT") =>
          /\ Ids(table) = Ids(pre.table)
          /\ resp.status = HTTP_200_OK => resp.body["id"] = req.id

C8_Witness ==
    /\ Is("PUT") /\ resp.status = HTTP_200_OK
    /\ "id" \in DOMAIN req.json.data
    /\ req.json.data["id"] # req.id
    /\ Cardinality(table) = 1

\* C9: a PUT of a stored id whose payload lacks a required field is answered
\* with a 4xx status, update() is not called, and the stored row keeps every
\* field value it had, those the payload supplied included: what such a PUT
\* assigned becomes a row only by a later PUT of that id that calls update().
C9_PutMissingField ==
    /\ (Is("PUT") /\ req.id \in Ids(pre.table) /\ req.json.ok
           /\ ~ValidJson(req.json)) =>
          /\ resp.status \in ClientErrors
          /\ \A i \in DOMAIN calls : calls[i] # "update"
          /\ table = pre.table
    /\ \A a \in pre.session :
          a \in table =>
              /\ Is("PUT") /\ req.id = a.id
              /\ \E i \in DOMAIN calls : calls[i] = "update"

\* C10: GET /accounts/<id> answers 200 with the serialized stored row when a
\* row of that id is stored and 404 when none is, and leaves the table as it
\* was.
C10_ReadById ==
    Is("GET") =>
        /\ table = pre.table
        /\ resp.status \in {HTTP_200_OK, HTTP_404_NOT_FOUND}
        /\ resp.status = HTTP_200_OK <=> req.id \in Ids(table)
        /\ resp.status = HTTP_200_OK =>
              \E r \in table : r.id = req.id /\ resp.body = serialize(r)

====
